---------------------------- MODULE Spec2Model ----------------------------
(***************************************************************************)
(* AcuRite 00523 / 00609 RF decoder (ESP32 build): pulse classifiers,      *)
(* framing machines, device validators, the parseRf dispatcher and the     *)
(* host loop.                                                              *)
(*                                                                         *)
(***************************************************************************)
EXTENDS Integers, Sequences, FiniteSets, TLC

VARIABLES
    m523,      \* Acurite523::Model acurite523 (framing state)
    m609,      \* Acurite609::Model acurite609 (framing state)
    freezer,   \* acurite523.devices[0]
    fridge,    \* acurite523.devices[1]
    outdoor,   \* acurite609.devices[0]
    prevRfs,   \* host loop: level of the pulse in progress (-1: none yet)
    env,       \* the receiver pin: what the air carries next
    ev,        \* what the last loop() iteration did (calls, returns, Payload)
    hist,      \* what the session has done so far (per burst, first signature)
    probe,     \* the last direct call of a device's validate_bitstream
    feed       \* a pulse stream fed straight to the models' parse_rf

vars == <<m523, m609, freezer, fridge, outdoor, prevRfs, env, ev, hist,
          probe, feed>>

-----------------------------------------------------------------------------
(* Program constants                                                       *)

ACURITE523_SIGNAL_BIT_LENGTH == 48
ACURITE523_SIGNAL_INV == -2
ACURITE523_SIGNAL_BIT_0_OFF == 0
ACURITE523_SIGNAL_BIT_0_ON == 1
ACURITE523_SIGNAL_BIT_1_OFF == 2
ACURITE523_SIGNAL_BIT_1_ON == 3
ACURITE523_SIGNAL_BITSTREAM_OFF == 4
ACURITE523_SIGNAL_BITSTREAM_ON == 5
ACURITE523_SIGNAL_CHUNK_END == 6
ACURITE523_SIG_FREEZER == 49225
ACURITE523_SIG_FRIDGE == 49276

ACURITE609_SIGNAL_BIT_LENGTH == 40
ACURITE609_SIGNAL_INV == -2
ACURITE609_SIGNAL_OFF == -1
ACURITE609_SIGNAL_BIT_0 == 0
ACURITE609_SIGNAL_BIT_1 == 1
ACURITE609_SIGNAL_BITSTREAM_START == 2
ACURITE609_SIGNAL_BITSTREAM_END == 3
ACURITE609_SIGNAL_CHUNK_START == 4
ACURITE609_SIGNAL_CHUNK_END == 5
ACURITE609_CHANNEL_ID == 2

TAG_TEMPMONITOR == 939995490
MODEL_ACURITE523 == 1592
MODEL_ACURITE609 == 6585
DEVICE_FREEZER == 9690
DEVICE_FRIDGE == 7784
DEVICE_OUTDOOR == 8501
STATUS_OK == 1

-----------------------------------------------------------------------------
(* Words.  A uint64_t bitstream is the pair <<hi, lo>> of its bits above   *)
(* bit 23 and its low 24 bits; the source never sets a bit at or above     *)
(* BIT_LENGTH, so hi stays below 2^24.                                     *)

Pow2[n \in 0..30] == IF n = 0 THEN 1 ELSE 2 * Pow2[n - 1]

ZeroWord == <<0, 0>>

\* The number written by the given bytes, first byte most significant.
RECURSIVE Num(_)
Num(bs) == IF bs = <<>> THEN 0 ELSE Head(bs) * Pow2[8 * (Len(bs) - 1)] + Num(Tail(bs))

\* The word made of the given bytes (at least three), first byte most significant.
Bytes(bs) ==
    <<Num(SubSeq(bs, 1, Len(bs) - 3)), Num(SubSeq(bs, Len(bs) - 2, Len(bs)))>>

\* (w >> k) & 1
Bit(w, k) ==
    IF k >= 24 THEN (w[1] \div Pow2[k - 24]) % 2 ELSE (w[2] \div Pow2[k]) % 2

\* (w >> lo) & (2^(hi-lo+1) - 1): the value of bits hi..lo (at most 24 of them).
RECURSIVE Field(_, _, _)
Field(w, hi, lo) ==
    IF lo >= 24 THEN (w[1] \div Pow2[lo - 24]) % Pow2[hi - lo + 1]
    ELSE IF hi < 24 THEN (w[2] \div Pow2[lo]) % Pow2[hi - lo + 1]
    ELSE Field(w, hi, 24) * Pow2[24 - lo] + Field(w, 23, lo)

\* w | (1 << k)
SetBit(w, k) ==
    IF Bit(w, k) = 1 THEN w
    ELSE IF k >= 24 THEN <<w[1] + Pow2[k - 24], w[2]>>
    ELSE <<w[1], w[2] + Pow2[k]>>

\* A uint64_t tested for truth.
NonZero(w) == w # ZeroWord

-----------------------------------------------------------------------------
(* Acurite523::Model                                                       *)

\* The object is a global: its members are zero-initialised before the
\* constructor, which sets only `devices`.
Acurite523_Model ==
    [bitstream |-> ZeroWord,
     bitstream_size |-> 0,
     bitstream_open |-> FALSE,
     bitstream_opener_count |-> 0,
     chunk_open |-> FALSE,
     last_rfs_type |-> 0]

\* Variant: a clear() that also closes the chunk.
Acurite523_clear_closing_chunk(m) ==
    [m EXCEPT !.bitstream = ZeroWord,
              !.bitstream_size = 0,
              !.last_rfs_type = ACURITE523_SIGNAL_INV,
              !.bitstream_open = FALSE,
              !.bitstream_opener_count = 0,
              !.chunk_open = FALSE]

Acurite523_clear(m) ==
    [m EXCEPT !.bitstream = ZeroWord,
              !.bitstream_size = 0,
              !.last_rfs_type = ACURITE523_SIGNAL_INV,
              !.bitstream_open = FALSE,
              !.bitstream_opener_count = 0]

Acurite523_get_rfs_type(rfs, duration) ==
    IF rfs = 0 THEN
        IF duration >= 100 /\ duration < 300 THEN ACURITE523_SIGNAL_BIT_0_OFF
        ELSE IF duration >= 300 /\ duration < 500 THEN ACURITE523_SIGNAL_BIT_1_OFF
        ELSE IF duration >= 500 /\ duration < 700 THEN ACURITE523_SIGNAL_BITSTREAM_OFF
        ELSE ACURITE523_SIGNAL_INV
    ELSE IF rfs = 1 THEN
        IF duration >= 100 /\ duration < 300 THEN ACURITE523_SIGNAL_BIT_1_ON
        ELSE IF duration >= 300 /\ duration < 500 THEN ACURITE523_SIGNAL_BIT_0_ON
        ELSE IF duration >= 500 /\ duration < 700 THEN ACURITE523_SIGNAL_BITSTREAM_ON
        ELSE IF duration >= 20000 /\ duration < 60000 THEN ACURITE523_SIGNAL_CHUNK_END
        ELSE ACURITE523_SIGNAL_INV
    ELSE ACURITE523_SIGNAL_INV

Acurite523_open_bitstream(m) ==
    [m EXCEPT !.bitstream_open = TRUE,
              !.bitstream_size = 0,
              !.bitstream = ZeroWord]

Acurite523_close_bitstream(m) ==
    [m EXCEPT !.bitstream_open = FALSE,
              !.bitstream_size = 0,
              !.bitstream = ZeroWord]

Acurite523_open_chunk(m) ==
    Acurite523_open_bitstream([m EXCEPT !.chunk_open = TRUE])

Acurite523_close_chunk(m) ==
    Acurite523_close_bitstream([m EXCEPT !.chunk_open = FALSE])

\* Variant: a full bitstream is left in place for a later branch to return.
Acurite523_emit_if_full_deferred(m) == [m |-> m, result |-> ZeroWord]

\* Variant: a full bitstream is returned and the whole chunk is closed.
Acurite523_emit_if_full_closing_chunk(m) ==
    IF m.bitstream_size = ACURITE523_SIGNAL_BIT_LENGTH
    THEN [m |-> Acurite523_close_chunk(m), result |-> m.bitstream]
    ELSE [m |-> m, result |-> ZeroWord]

\* if (bitstream_size == BIT_LENGTH) { result = bitstream; close_bitstream(); }
\* A pair <<model, result>>; result 0 is the all-zero word.
Acurite523_emit_if_full(m) ==
    IF m.bitstream_size = ACURITE523_SIGNAL_BIT_LENGTH
    THEN [m |-> Acurite523_close_bitstream(m), result |-> m.bitstream]
    ELSE [m |-> m, result |-> ZeroWord]

\* Variant: every pulse counts as an opener, not only BITSTREAM_ON.
Acurite523_preamble_counting_any(m, rfs_type) ==
    LET counted == [m EXCEPT !.bitstream_opener_count = @ + 1]
    IN  IF counted.bitstream_opener_count = 4
        THEN LET reset == [counted EXCEPT !.bitstream_opener_count = 0]
             IN  IF ~reset.chunk_open THEN Acurite523_open_chunk(reset) ELSE reset
        ELSE counted

\* Variant: the chunk opens on the third opener.
Acurite523_preamble_on_third(m, rfs_type) ==
    LET counted == IF rfs_type = ACURITE523_SIGNAL_BITSTREAM_ON
                   THEN [m EXCEPT !.bitstream_opener_count = @ + 1]
                   ELSE m
    IN  IF counted.bitstream_opener_count = 3
        THEN LET reset == [counted EXCEPT !.bitstream_opener_count = 0]
             IN  IF ~reset.chunk_open THEN Acurite523_open_chunk(reset) ELSE reset
        ELSE counted

\* The branch taken when last_rfs_type == BITSTREAM_OFF || !chunk_open.
Acurite523_preamble(m, rfs_type) ==
    LET counted == IF rfs_type = ACURITE523_SIGNAL_BITSTREAM_ON
                   THEN [m EXCEPT !.bitstream_opener_count = @ + 1]
                   ELSE m
    IN  IF counted.bitstream_opener_count = 4
        THEN LET reset == [counted EXCEPT !.bitstream_opener_count = 0]
             IN  IF ~reset.chunk_open THEN Acurite523_open_chunk(reset) ELSE reset
        ELSE counted

\* Variant: a CHUNK_END closes the bitstream and leaves the chunk open.
Acurite523_after_bit_0_off_keeping_chunk(m, rfs_type) ==
    LET LEN == ACURITE523_SIGNAL_BIT_LENGTH
        none == ZeroWord
        r == IF rfs_type = ACURITE523_SIGNAL_BIT_0_ON /\ m.bitstream_size < LEN
             THEN Acurite523_emit_if_full([m EXCEPT !.bitstream_size = @ + 1])
             ELSE IF rfs_type = ACURITE523_SIGNAL_BIT_1_ON /\ m.bitstream_size = LEN
             THEN [m |-> Acurite523_close_bitstream(m), result |-> m.bitstream]
             ELSE IF rfs_type = ACURITE523_SIGNAL_CHUNK_END
             THEN [m |-> Acurite523_close_bitstream(m),
                   result |-> IF m.bitstream_size = LEN THEN m.bitstream ELSE none]
             ELSE [m |-> m, result |-> none]
    IN  [m |-> [r.m EXCEPT !.bitstream_opener_count = 0], result |-> r.result]

\* The branch taken when last_rfs_type == BIT_0_OFF && chunk_open.
Acurite523_after_bit_0_off(m, rfs_type) ==
    LET LEN == ACURITE523_SIGNAL_BIT_LENGTH
        none == ZeroWord
        r == IF rfs_type = ACURITE523_SIGNAL_BIT_0_ON /\ m.bitstream_size < LEN
             THEN Acurite523_emit_if_full([m EXCEPT !.bitstream_size = @ + 1])
             ELSE IF rfs_type = ACURITE523_SIGNAL_BIT_1_ON /\ m.bitstream_size = LEN
             THEN [m |-> Acurite523_close_bitstream(m), result |-> m.bitstream]
             ELSE IF rfs_type = ACURITE523_SIGNAL_CHUNK_END
             THEN [m |-> Acurite523_close_chunk(m),
                   result |-> IF m.bitstream_size = LEN THEN m.bitstream ELSE none]
             ELSE [m |-> m, result |-> none]
    IN  [m |-> [r.m EXCEPT !.bitstream_opener_count = 0], result |-> r.result]

\* Variant: the first received bit goes to bit 0 instead of bit LEN - 1.
Acurite523_after_bit_1_off_lsb_first(m, rfs_type) ==
    LET LEN == ACURITE523_SIGNAL_BIT_LENGTH
    IN  IF rfs_type = ACURITE523_SIGNAL_BIT_1_ON /\ m.bitstream_size < LEN
        THEN Acurite523_emit_if_full(
                 [m EXCEPT !.bitstream = SetBit(@, m.bitstream_size),
                           !.bitstream_size = @ + 1])
        ELSE [m |-> m, result |-> ZeroWord]

\* The branch taken when last_rfs_type == BIT_1_OFF && chunk_open.
Acurite523_after_bit_1_off(m, rfs_type) ==
    LET LEN == ACURITE523_SIGNAL_BIT_LENGTH
    IN  IF rfs_type = ACURITE523_SIGNAL_BIT_1_ON /\ m.bitstream_size < LEN
        THEN Acurite523_emit_if_full(
                 [m EXCEPT !.bitstream = SetBit(@, LEN - m.bitstream_size - 1),
                           !.bitstream_size = @ + 1])
        ELSE [m |-> m, result |-> ZeroWord]

\* uint64_t parse_rf(duration, rfs): the new framing state and the value returned.
Acurite523_parse_rf(m, duration, rfs) ==
    LET rfs_type == Acurite523_get_rfs_type(rfs, duration)
        r == IF m.last_rfs_type = ACURITE523_SIGNAL_BITSTREAM_OFF \/ ~m.chunk_open
             THEN [m |-> Acurite523_preamble(m, rfs_type),
                   result |-> ZeroWord]
             ELSE IF m.last_rfs_type = ACURITE523_SIGNAL_BIT_0_OFF /\ m.chunk_open
             THEN Acurite523_after_bit_0_off(m, rfs_type)
             ELSE IF m.last_rfs_type = ACURITE523_SIGNAL_BIT_1_OFF /\ m.chunk_open
             THEN Acurite523_after_bit_1_off(m, rfs_type)
             ELSE [m |-> m, result |-> ZeroWord]
    IN  [m |-> [r.m EXCEPT !.last_rfs_type = rfs_type], result |-> r.result]

-----------------------------------------------------------------------------
(* Acurite609::Model                                                       *)

Acurite609_Model ==
    [bitstream |-> ZeroWord,
     bitstream_size |-> 0,
     bitstream_open |-> FALSE,
     chunk_open |-> FALSE,
     last_rfs_type |-> 0]

\* Variant: a clear() that closes the chunk when it finds the bitstream closed.
Acurite609_clear_closing_idle_chunk(m) ==
    [m EXCEPT !.bitstream = ZeroWord,
              !.bitstream_size = 0,
              !.last_rfs_type = ACURITE609_SIGNAL_INV,
              !.bitstream_open = FALSE,
              !.chunk_open = m.chunk_open /\ m.bitstream_open]

\* Variant: a clear() that also closes the chunk.
Acurite609_clear_closing_chunk(m) ==
    [m EXCEPT !.bitstream = ZeroWord,
              !.bitstream_size = 0,
              !.last_rfs_type = ACURITE609_SIGNAL_INV,
              !.bitstream_open = FALSE,
              !.chunk_open = FALSE]

Acurite609_clear(m) ==
    [m EXCEPT !.bitstream = ZeroWord,
              !.bitstream_size = 0,
              !.last_rfs_type = ACURITE609_SIGNAL_INV,
              !.bitstream_open = FALSE]

\* Variant: the BIT_0 window of a high pulse starts at 100 instead of 300.
Acurite609_get_rfs_type_bit_0_from_100(rfs, duration) ==
    IF rfs = 0 THEN
        IF duration < 1200 THEN ACURITE609_SIGNAL_OFF
        ELSE ACURITE609_SIGNAL_INV
    ELSE IF rfs = 1 THEN
        IF duration < 100 THEN ACURITE609_SIGNAL_CHUNK_START
        ELSE IF duration >= 100 /\ duration < 1200 THEN ACURITE609_SIGNAL_BIT_0
        ELSE IF duration >= 1200 /\ duration < 3000 THEN ACURITE609_SIGNAL_BIT_1
        ELSE IF duration >= 8700 /\ duration < 9000 THEN ACURITE609_SIGNAL_BITSTREAM_START
        ELSE IF duration >= 10000 /\ duration < 20000 THEN ACURITE609_SIGNAL_BITSTREAM_END
        ELSE IF duration >= 20000 /\ duration < 40000 THEN ACURITE609_SIGNAL_CHUNK_END
        ELSE ACURITE609_SIGNAL_INV
    ELSE ACURITE609_SIGNAL_INV

Acurite609_get_rfs_type(rfs, duration) ==
    IF rfs = 0 THEN
        IF duration < 1200 THEN ACURITE609_SIGNAL_OFF
        ELSE ACURITE609_SIGNAL_INV
    ELSE IF rfs = 1 THEN
        IF duration < 300 THEN ACURITE609_SIGNAL_CHUNK_START
        ELSE IF duration >= 300 /\ duration < 1200 THEN ACURITE609_SIGNAL_BIT_0
        ELSE IF duration >= 1200 /\ duration < 3000 THEN ACURITE609_SIGNAL_BIT_1
        ELSE IF duration >= 8700 /\ duration < 9000 THEN ACURITE609_SIGNAL_BITSTREAM_START
        ELSE IF duration >= 10000 /\ duration < 20000 THEN ACURITE609_SIGNAL_BITSTREAM_END
        ELSE IF duration >= 20000 /\ duration < 40000 THEN ACURITE609_SIGNAL_CHUNK_END
        ELSE ACURITE609_SIGNAL_INV
    ELSE ACURITE609_SIGNAL_INV

Acurite609_is_bit_signal(rfs_type) ==
    rfs_type = ACURITE609_SIGNAL_BIT_0 \/ rfs_type = ACURITE609_SIGNAL_BIT_1

Acurite609_open_bitstream(m) ==
    [m EXCEPT !.bitstream_open = TRUE,
              !.bitstream_size = 0,
              !.bitstream = ZeroWord]

Acurite609_close_bitstream(m) ==
    [m EXCEPT !.bitstream_open = FALSE,
              !.bitstream_size = 0,
              !.bitstream = ZeroWord]

Acurite609_open_chunk(m) ==
    Acurite609_open_bitstream([m EXCEPT !.chunk_open = TRUE])

\* Variant: a close_chunk() that leaves the bitstream as it is.
Acurite609_close_chunk_leaving_bitstream(m) == [m EXCEPT !.chunk_open = FALSE]

Acurite609_close_chunk(m) ==
    Acurite609_close_bitstream([m EXCEPT !.chunk_open = FALSE])

\* if (bitstream_size == BIT_LENGTH) result = bitstream;
Acurite609_result_if_full(m) ==
    IF m.bitstream_size = ACURITE609_SIGNAL_BIT_LENGTH
    THEN m.bitstream
    ELSE ZeroWord

\* Variant: the first received bit goes to bit 0 instead of bit LEN - 1.
Acurite609_shift_in_lsb_first(m, rfs_type) ==
    LET LEN == ACURITE609_SIGNAL_BIT_LENGTH
        set == IF rfs_type = ACURITE609_SIGNAL_BIT_1 /\ m.bitstream_size < LEN
               THEN [m EXCEPT !.bitstream = SetBit(@, m.bitstream_size)]
               ELSE m
        inc == [set EXCEPT !.bitstream_size = @ + 1]
    IN  IF inc.bitstream_size = LEN
        THEN [m |-> Acurite609_close_bitstream(inc), result |-> inc.bitstream]
        ELSE [m |-> inc, result |-> ZeroWord]

\* Variant: a full bitstream is returned but not closed.
Acurite609_shift_in_left_open(m, rfs_type) ==
    LET LEN == ACURITE609_SIGNAL_BIT_LENGTH
        set == IF rfs_type = ACURITE609_SIGNAL_BIT_1 /\ m.bitstream_size < LEN
               THEN [m EXCEPT !.bitstream = SetBit(@, LEN - m.bitstream_size - 1)]
               ELSE m
        inc == [set EXCEPT !.bitstream_size = @ + 1]
    IN  IF inc.bitstream_size = LEN
        THEN [m |-> inc, result |-> inc.bitstream]
        ELSE [m |-> inc, result |-> ZeroWord]

\* The is_bit_signal(rfs_type) && bitstream_open branch.  The shift of a
\* BIT_1 is guarded by bitstream_size < BIT_LENGTH; the increment is not.
Acurite609_shift_in(m, rfs_type) ==
    LET LEN == ACURITE609_SIGNAL_BIT_LENGTH
        set == IF rfs_type = ACURITE609_SIGNAL_BIT_1 /\ m.bitstream_size < LEN
               THEN [m EXCEPT !.bitstream = SetBit(@, LEN - m.bitstream_size - 1)]
               ELSE m
        inc == [set EXCEPT !.bitstream_size = @ + 1]
    IN  IF inc.bitstream_size = LEN
        THEN [m |-> Acurite609_close_bitstream(inc), result |-> inc.bitstream]
        ELSE [m |-> inc, result |-> ZeroWord]

\* The branch taken when last_rfs_type == OFF && chunk_open.
Acurite609_in_chunk(m, rfs_type) ==
    IF rfs_type = ACURITE609_SIGNAL_BITSTREAM_START /\ ~m.bitstream_open
    THEN [m |-> Acurite609_open_bitstream(m), result |-> Acurite609_result_if_full(m)]
    ELSE IF rfs_type = ACURITE609_SIGNAL_BITSTREAM_END /\ m.bitstream_open
    THEN [m |-> Acurite609_close_bitstream(m), result |-> Acurite609_result_if_full(m)]
    ELSE IF rfs_type = ACURITE609_SIGNAL_CHUNK_END
    THEN [m |-> Acurite609_close_chunk(m), result |-> Acurite609_result_if_full(m)]
    ELSE IF Acurite609_is_bit_signal(rfs_type) /\ m.bitstream_open
    THEN Acurite609_shift_in(m, rfs_type)
    ELSE [m |-> m, result |-> ZeroWord]

\* Variant: inside a chunk the previous class is not looked at.
Acurite609_parse_rf_ungated(m, duration, rfs) ==
    LET rfs_type == Acurite609_get_rfs_type(rfs, duration)
        r == IF m.last_rfs_type = ACURITE609_SIGNAL_OFF /\ ~m.chunk_open
             THEN [m |-> IF rfs_type = ACURITE609_SIGNAL_BITSTREAM_START
                         THEN Acurite609_open_chunk(m) ELSE m,
                   result |-> ZeroWord]
             ELSE IF m.chunk_open
             THEN Acurite609_in_chunk(m, rfs_type)
             ELSE [m |-> m, result |-> ZeroWord]
    IN  [m |-> [r.m EXCEPT !.last_rfs_type = rfs_type], result |-> r.result]

\* uint64_t parse_rf(duration, rfs): the new framing state and the value returned.
Acurite609_parse_rf(m, duration, rfs) ==
    LET rfs_type == Acurite609_get_rfs_type(rfs, duration)
        r == IF m.last_rfs_type = ACURITE609_SIGNAL_OFF /\ ~m.chunk_open
             THEN [m |-> IF rfs_type = ACURITE609_SIGNAL_BITSTREAM_START
                         THEN Acurite609_open_chunk(m) ELSE m,
                   result |-> ZeroWord]
             ELSE IF m.last_rfs_type = ACURITE609_SIGNAL_OFF /\ m.chunk_open
             THEN Acurite609_in_chunk(m, rfs_type)
             ELSE [m |-> m, result |-> ZeroWord]
    IN  [m |-> [r.m EXCEPT !.last_rfs_type = rfs_type], result |-> r.result]

-----------------------------------------------------------------------------
(* Devices.  A float temperature is kept exactly, as the integer numerator *)
(* the source divides: (raw - 1800) over 18 for 00523, the decoded raw     *)
(* value over 20 for 00609.                                                *)

\* int16_t(x) of a quotient n/d (d > 0): truncation toward zero.
TruncDiv(n, d) == IF n >= 0 THEN n \div d ELSE -((-n) \div d)

NoPayload == [tag |-> 0, model |-> 0, device |-> 0, status |-> 0,
              battery |-> 0, temperature |-> 0, humidity |-> 0]

\* Variant: the two hardcoded signatures are exchanged.
Acurite523_Device_swapped(device) ==
    [device |-> device,
     temperature |-> 0,
     battery |-> 0,
     signature |-> IF device = DEVICE_FREEZER THEN ACURITE523_SIG_FRIDGE
                   ELSE IF device = DEVICE_FRIDGE THEN ACURITE523_SIG_FREEZER
                   ELSE 0]

Acurite523_Device(device) ==
    [device |-> device,
     temperature |-> 0,
     battery |-> 0,
     signature |-> IF device = DEVICE_FREEZER THEN ACURITE523_SIG_FREEZER
                   ELSE IF device = DEVICE_FRIDGE THEN ACURITE523_SIG_FRIDGE
                   ELSE 0]

\* Variant: the temperature is rounded down instead of toward zero.
Acurite523_create_payload_floor(d, status) ==
    [tag |-> TAG_TEMPMONITOR,
     model |-> MODEL_ACURITE523,
     device |-> d.device,
     status |-> status,
     battery |-> d.battery,
     temperature |-> (d.temperature * 10) \div 18,
     humidity |-> 0]

Acurite523_create_payload(d, status) ==
    [tag |-> TAG_TEMPMONITOR,
     model |-> MODEL_ACURITE523,
     device |-> d.device,
     status |-> status,
     battery |-> d.battery,
     temperature |-> TruncDiv(d.temperature * 10, 18),
     humidity |-> 0]

\* Variant: no checksum is computed.
Acurite523_validate_checksum_skipped(w) == TRUE

Acurite523_validate_checksum(w) ==
    LET checksum == Field(w, 7, 0)
        calculated == (Field(w, 15, 8) + Field(w, 23, 16) + Field(w, 31, 24)
                       + Field(w, 39, 32) + Field(w, 47, 40)) % 256
    IN  checksum = calculated

\* The number of set bits among the low 8 bits of value.
RECURSIVE OnBits(_, _)
OnBits(value, n) ==
    IF n = 0 THEN 0 ELSE (value % 2) + OnBits(value \div 2, n - 1)

Acurite523_validate_parity(parity, value) ==
    (OnBits(value, 8) % 2) = parity

\* Variant: exactly 70 C is still accepted.
Acurite523_validate_bitstream_upto_70(d, w) ==
    LET sig == Field(w, 47, 32)
        bat == Field(w, 31, 30)
        parity1 == Bit(w, 15)
        byte1 == Field(w, 14, 8)
        parity2 == Bit(w, 23)
        byte2 == Field(w, 22, 16)
        temp == (byte2 * 128 + byte1) - 1800
    IN  IF ~NonZero(w) THEN [ok |-> FALSE, d |-> d]
        ELSE IF sig # d.signature THEN [ok |-> FALSE, d |-> d]
        ELSE IF ~Acurite523_validate_checksum(w) THEN [ok |-> FALSE, d |-> d]
        ELSE IF ~Acurite523_validate_parity(parity1, byte1)
                \/ ~Acurite523_validate_parity(parity2, byte2)
        THEN [ok |-> FALSE, d |-> d]
        ELSE IF temp < -40 * 18 \/ temp > 70 * 18 THEN [ok |-> FALSE, d |-> d]
        ELSE [ok |-> TRUE, d |-> [d EXCEPT !.battery = bat, !.temperature = temp]]

\* bool validate_bitstream(bitstream): the verdict and the device afterwards.
Acurite523_validate_bitstream(d, w) ==
    LET sig == Field(w, 47, 32)
        bat == Field(w, 31, 30)
        parity1 == Bit(w, 15)
        byte1 == Field(w, 14, 8)
        parity2 == Bit(w, 23)
        byte2 == Field(w, 22, 16)
        temp == (byte2 * 128 + byte1) - 1800      \* over 18
    IN  IF ~NonZero(w) THEN [ok |-> FALSE, d |-> d]
        ELSE IF sig # d.signature THEN [ok |-> FALSE, d |-> d]
        ELSE IF ~Acurite523_validate_checksum(w) THEN [ok |-> FALSE, d |-> d]
        ELSE IF ~Acurite523_validate_parity(parity1, byte1)
                \/ ~Acurite523_validate_parity(parity2, byte2)
        THEN [ok |-> FALSE, d |-> d]
        ELSE IF temp < -40 * 18 \/ temp >= 70 * 18 THEN [ok |-> FALSE, d |-> d]
        ELSE [ok |-> TRUE, d |-> [d EXCEPT !.battery = bat, !.temperature = temp]]

Acurite609_Device(device) ==
    [device |-> device,
     temperature |-> 0,
     humidity |-> 0,
     battery |-> 0,
     signature |-> 0]

Acurite609_create_payload(d, status) ==
    [tag |-> TAG_TEMPMONITOR,
     model |-> MODEL_ACURITE609,
     device |-> d.device,
     status |-> status,
     battery |-> d.battery,
     temperature |-> TruncDiv(d.temperature * 10, 20),
     humidity |-> d.humidity * 10]

\* Variant: no checksum is computed.
Acurite609_validate_checksum_skipped(w) == TRUE

Acurite609_validate_checksum(w) ==
    LET checksum == Field(w, 7, 0)
        calculated == (Field(w, 15, 8) + Field(w, 23, 16) + Field(w, 31, 24)
                       + Field(w, 39, 32)) % 256
    IN  checksum = calculated

\* if ((uint16_t)temp & 0x1000 == 0x1000) temp = -(0x2000 - temp);
\* == binds tighter than &: the test is (uint16_t)temp & 1.
Acurite609_decode_temp(raw) ==
    IF raw % 2 # 0 THEN -(8192 - raw) ELSE raw

Acurite609_validate_bitstream(d, w) ==
    LET sig == Field(w, 39, 32)
        cha == Field(w, 29, 28)
        bat == Field(w, 31, 30)
        temp == Acurite609_decode_temp(Field(w, 27, 15))     \* over 20
        hum == Field(w, 14, 8)
    IN  IF ~NonZero(w) THEN [ok |-> FALSE, d |-> d]
        ELSE IF d.signature # 0 /\ d.signature # sig THEN [ok |-> FALSE, d |-> d]
        ELSE IF cha # ACURITE609_CHANNEL_ID THEN [ok |-> FALSE, d |-> d]
        ELSE IF ~Acurite609_validate_checksum(w) THEN [ok |-> FALSE, d |-> d]
        ELSE IF hum < 1 \/ hum > 99 \/ temp < -40 * 20 \/ temp > 70 * 20
        THEN [ok |-> FALSE, d |-> d]
        ELSE [ok |-> TRUE,
              d |-> [d EXCEPT !.signature = IF @ = 0 THEN sig ELSE @,
                              !.battery = bat,
                              !.humidity = hum,
                              !.temperature = temp]]

-----------------------------------------------------------------------------
(* The dispatcher                                                          *)

updateStats523(d) == Acurite523_create_payload(d, STATUS_OK)

updateStats609(d) == Acurite609_create_payload(d, STATUS_OK)

\* for (Acurite523::Device device : acurite523.devices): each device is a
\* copy; validate_bitstream latches into the copy, the Payload is built from
\* the copy, and the element of the vector is left as it was.
\* The first device of the list that accepts w, as <<accepted, payload>>.
RECURSIVE Walk523(_, _)
Walk523(devices, w) ==
    IF devices = <<>> THEN [ok |-> FALSE, payload |-> NoPayload]
    ELSE LET v == Acurite523_validate_bitstream(Head(devices), w)
         IN  IF v.ok THEN [ok |-> TRUE, payload |-> updateStats523(v.d)]
             ELSE Walk523(Tail(devices), w)

RECURSIVE Walk609(_, _)
Walk609(devices, w) ==
    IF devices = <<>> THEN [ok |-> FALSE, payload |-> NoPayload]
    ELSE LET v == Acurite609_validate_bitstream(Head(devices), w)
         IN  IF v.ok THEN [ok |-> TRUE, payload |-> updateStats609(v.d)]
             ELSE Walk609(Tail(devices), w)

\* bool parseRf(duration, rfs): the models afterwards, the value returned,
\* what each parse_rf returned (called609: whether acurite609.parse_rf was
\* reached) and the Payload updateStats created.
parseRf(a523, a609, devs523, devs609, duration, rfs) ==
    LET p5 == Acurite523_parse_rf(a523, duration, rfs)
        w5 == IF NonZero(p5.result) THEN Walk523(devs523, p5.result)
              ELSE [ok |-> FALSE, payload |-> NoPayload]
        p6 == Acurite609_parse_rf(a609, duration, rfs)
        w6 == IF NonZero(p6.result) THEN Walk609(devs609, p6.result)
              ELSE [ok |-> FALSE, payload |-> NoPayload]
    IN  IF w5.ok
        THEN [m523 |-> p5.m, m609 |-> a609, ok |-> TRUE,
              r523 |-> p5.result, called609 |-> FALSE,
              r609 |-> ZeroWord,
              payload |-> w5.payload]
        ELSE [m523 |-> p5.m, m609 |-> p6.m, ok |-> w6.ok,
              r523 |-> p5.result, called609 |-> TRUE,
              r609 |-> p6.result,
              payload |-> w6.payload]

-----------------------------------------------------------------------------
(* The air.  Pulses reach the pin in pairs, a low pulse then a high one.   *)
(* A block is a word sent pair by pair; between blocks the air carries any *)
(* of the other pairs; a block in progress may be cut short (the rest of   *)
(* its pulses lost) at most MaxLost times in a session, right after its    *)
(* first CutBits bits.                                                     *)

MaxLost == 1
CutBits == 8
MaxBurst == 2

Pulse(rfs, duration) == [rfs |-> rfs, duration |-> duration]
NoPulse == Pulse(-1, 0)

\* 00523 blocks: the first sample of docs/acurite523.md (freezer), the
\* 11.1C sample under the fridge signature, and the first sample with the
\* low bit of its checksum flipped.
Words523 ==
    << Bytes(<<192, 73, 201, 139, 60, 153>>),
       Bytes(<<192, 124, 201, 15, 80, 100>>),
       Bytes(<<192, 73, 201, 139, 60, 152>>) >>

\* 00609 blocks: the three samples of docs/acurite609.md (35C; below
\* freezing; after a battery change, with another signature) and the first
\* with the low bit of its checksum flipped.
Words609 ==
    << Bytes(<<192, 161, 91, 37, 225>>),
       Bytes(<<192, 175, 193, 69, 117>>),
       Bytes(<<15, 33, 35, 39, 122>>),
       Bytes(<<192, 161, 91, 37, 224>>) >>

\* 00523: a bit is an OFF half then an ON half of the matching class.
Pair523(b) ==
    IF b = 0 THEN <<Pulse(0, 200), Pulse(1, 400)>>
    ELSE <<Pulse(0, 400), Pulse(1, 200)>>

\* 00609: an idle, then an ON pulse whose width is the bit.
Pair609(b) ==
    <<Pulse(0, 1000), Pulse(1, IF b = 0 THEN 1000 ELSE 2000)>>

Start609 == <<Pulse(0, 1000), Pulse(1, 8800)>>

\* The pairs the air carries outside a block: a 00523 preamble opener, a
\* chunk end after a short or a long idle, a pair out of every window, a
\* glitch shorter than the host's threshold, a pair at the two sides of the
\* threshold, an OFF/ON pair of mismatched
\* classes, a 00609 bitstream end.
IdlePairs ==
    { <<Pulse(0, 600), Pulse(1, 600)>>,
      <<Pulse(0, 200), Pulse(1, 30000)>>,
      <<Pulse(0, 400), Pulse(1, 30000)>>,
      <<Pulse(0, 5000), Pulse(1, 5000)>>,
      <<Pulse(0, 50), Pulse(1, 50)>>,
      <<Pulse(0, 99), Pulse(1, 100)>>,
      <<Pulse(0, 200), Pulse(1, 200)>>,
      <<Pulse(0, 1000), Pulse(1, 15000)>> }

BlockPairs(tx) ==
    IF tx = 523 THEN ACURITE523_SIGNAL_BIT_LENGTH
    ELSE ACURITE609_SIGNAL_BIT_LENGTH + 1

\* Pair number i+1 of the block of word w: bits go out MSB first.
BlockPair(tx, w, i) ==
    IF tx = 523
    THEN Pair523(Bit(Words523[w], ACURITE523_SIGNAL_BIT_LENGTH - (i + 1)))
    ELSE IF i = 0 THEN Start609
    ELSE Pair609(Bit(Words609[w], ACURITE609_SIGNAL_BIT_LENGTH - i))

\* The bits of the block sent after i of its pairs.
BitsSent(tx, i) == IF tx = 523 THEN i ELSE i - 1

\* What the air carries in a session: 00523 traffic, 00609 traffic (each
\* with the pairs of IdlePairs between blocks; preamble openers belong to
\* 00523 traffic), or both transmitters at once, with only preamble openers
\* between blocks.
Airs == {"a523", "a609"}

Opener == <<Pulse(0, 600), Pulse(1, 600)>>

AirPairs(air) ==
    IF air = "both" THEN { Opener }
    ELSE IF air = "a609" THEN IdlePairs \ { Opener }
    ELSE IdlePairs

AirWords523(air) ==
    IF air = "a523" THEN DOMAIN Words523
    ELSE IF air = "both" THEN {1, 3}
    ELSE {}

AirWords609(air) ==
    IF air = "a609" THEN DOMAIN Words609
    ELSE IF air = "both" THEN {1}
    ELSE {}

Idle(air, lost) ==
    [air |-> air, tx |-> 0, w |-> 0, i |-> 0, pend |-> NoPulse, lost |-> lost]

\* The air after sending the first pulse of pair i+1 of a block.  The
\* block is over once all its pairs are sent (i = BlockPairs(tx)).
InBlock(air, tx, w, i, lost) ==
    LET pair == BlockPair(tx, w, i)
    IN  [pulse |-> pair[1],
         env |-> [air |-> air, tx |-> tx, w |-> w, i |-> i + 1,
                  pend |-> pair[2], lost |-> lost]]

\* Anything that may start when no block is in progress.
Fresh(air, lost) ==
    { [pulse |-> pair[1], env |-> [Idle(air, lost) EXCEPT !.pend = pair[2]]] :
        pair \in AirPairs(air) }
    \cup { InBlock(air, 523, w, 0, lost) : w \in AirWords523(air) }
    \cup { InBlock(air, 609, w, 0, lost) : w \in AirWords609(air) }

\* The next pulse of the pin (the level held and for how long) with the air
\* afterwards.  A session that starts on a high level sees that level end
\* before the first pair.
EnvNext ==
    IF env.pend # NoPulse
    THEN { [pulse |-> env.pend, env |-> [env EXCEPT !.pend = NoPulse]] }
    ELSE IF prevRfs = 1
    THEN { [pulse |-> Pulse(1, d), env |-> env] : d \in {50, 5000} }
    ELSE IF env.tx = 0 \/ env.i = BlockPairs(env.tx)
    THEN Fresh(env.air, env.lost)
    ELSE { InBlock(env.air, env.tx, env.w, env.i, env.lost) }
         \cup (IF env.lost < MaxLost /\ BitsSent(env.tx, env.i) = CutBits
               THEN Fresh(env.air, env.lost + 1) ELSE {})

-----------------------------------------------------------------------------
(* The host                                                                *)

NoEvent ==
    [called |-> FALSE, duration |-> 0, rfs |-> -1, ok |-> FALSE,
     r523 |-> ZeroWord,
     called609 |-> FALSE,
     r609 |-> ZeroWord,
     payload |-> NoPayload]

Min(a, b) == IF a < b THEN a ELSE b

\* The session so far: the device of the first Payload created since each
\* model's chunk was opened (0: none), the Payloads of that device created
\* since (counted up to MaxBurst), whether a 00523 candidate has been
\* rejected since its chunk was opened, and the signature byte of the first
\* 00609 candidate accepted (-1: none yet).
HistAfter(h, r, a523, a609) ==
    LET new523 == r.ok /\ r.payload.model = MODEL_ACURITE523
        new609 == r.ok /\ r.payload.model = MODEL_ACURITE609
    IN  [dev523 |-> IF ~a523.chunk_open THEN 0
                    ELSE IF new523 /\ h.dev523 = 0 THEN r.payload.device
                    ELSE h.dev523,
         burst523 |-> IF ~a523.chunk_open THEN 0
                      ELSE IF new523 /\ h.dev523 \in {0, r.payload.device}
                      THEN Min(h.burst523 + 1, MaxBurst)
                      ELSE h.burst523,
         burst609 |-> IF ~a609.chunk_open THEN 0
                      ELSE IF new609 THEN Min(h.burst609 + 1, MaxBurst)
                      ELSE h.burst609,
         rej523 |-> IF ~a523.chunk_open THEN FALSE
                    ELSE IF NonZero(r.r523) /\ ~new523 THEN TRUE
                    ELSE h.rej523,
         sig609 |-> IF new609 /\ h.sig609 = -1 THEN Field(r.r609, 39, 32)
                    ELSE h.sig609]

\* resetRf(): clear() on both models (start is the host's clock reading).
resetRf523(m) == Acurite523_clear(m)

\* Variant: resetRf leaves the 00609 model as it is.
resetRf609_skipped(m) == m

resetRf609(m) == Acurite609_clear(m)

NoProbe ==
    [model |-> 0, queue |-> <<>>, calls |-> 0, w |-> ZeroWord, ok |-> FALSE,
     before |-> 0, after |-> 0, dispatched |-> FALSE, payload |-> NoPayload,
     first |-> -1]

NoFeed ==
    [script |-> [kind |-> "none"], n |-> 0, cleared |-> FALSE, again |-> FALSE]

\* The globals of the sketch after construction and setup().
Constructed ==
    /\ m523 = Acurite523_Model
    /\ m609 = Acurite609_Model
    /\ freezer = Acurite523_Device(DEVICE_FREEZER)
    /\ fridge = Acurite523_Device(DEVICE_FRIDGE)
    /\ outdoor = Acurite609_Device(DEVICE_OUTDOOR)
    /\ prevRfs = -1
    /\ ev = NoEvent
    /\ hist = [dev523 |-> 0, burst523 |-> 0, burst609 |-> 0, rej523 |-> FALSE,
               sig609 |-> -1]

Init ==
    /\ Constructed
    /\ env \in { Idle(air, 0) : air \in Airs }
    /\ probe = NoProbe
    /\ feed = NoFeed

\* Variant: pulses of every duration are parsed.
LongEnough_any(duration) == TRUE

\* if (duration >= 100): the pulses the host hands to parseRf.
LongEnough(duration) == duration >= 100

\* One iteration of loop().  rfs is digitalRead(PIN_RX) ^ 1; duration is
\* now - start, the time the level prevRfs was held, read from the clock.
Loop ==
    \E rfs \in {0, 1} :
        IF prevRfs >= 0 /\ rfs # prevRfs
        THEN \E e \in EnvNext :
                LET duration == e.pulse.duration
                    r == parseRf(m523, m609, <<freezer, fridge>>, <<outdoor>>,
                                 duration, prevRfs)
                IN  /\ e.pulse.rfs = prevRfs
                    /\ IF LongEnough(duration)
                       THEN /\ m523' = IF r.ok THEN resetRf523(r.m523) ELSE r.m523
                            /\ m609' = IF r.ok THEN resetRf609(r.m609) ELSE r.m609
                            /\ ev' = [called |-> TRUE, duration |-> duration,
                                      rfs |-> prevRfs, ok |-> r.ok,
                                      r523 |-> r.r523, called609 |-> r.called609,
                                      r609 |-> r.r609, payload |-> r.payload]
                            /\ hist' = HistAfter(hist, r, r.m523, r.m609)
                       ELSE /\ UNCHANGED <<m523, m609, hist>>
                            /\ ev' = [NoEvent EXCEPT !.duration = duration,
                                                     !.rfs = prevRfs]
                    /\ env' = e.env
                    /\ prevRfs' = rfs
                    /\ UNCHANGED <<freezer, fridge, outdoor, probe, feed>>
        ELSE /\ prevRfs' = rfs
             /\ ev' = NoEvent
             /\ UNCHANGED <<m523, m609, freezer, fridge, outdoor, env, hist,
                            probe, feed>>

Next == Loop

Spec == Init /\ [][Next]_vars

\* The same host with both transmitters on the air.
InitMixed ==
    /\ Constructed
    /\ env = Idle("both", 0)
    /\ probe = NoProbe
    /\ feed = NoFeed

SpecMixed == InitMixed /\ [][Next]_vars

-----------------------------------------------------------------------------
(* The validators called directly on candidate words                       *)

\* A 48-bit candidate from its fields: signature, byte 3, parity bit and 7
\* data bits of bytes 2 and 1, and the checksum as the byte sum plus delta.
MkWord523(sig, b3, p2, byte2, p1, byte1, delta) ==
    LET b5 == sig \div 256
        b4 == sig % 256
        b2 == p2 * 128 + byte2
        b1 == p1 * 128 + byte1
    IN  Bytes(<<b5, b4, b3, b2, b1, (b5 + b4 + b3 + b2 + b1 + delta) % 256>>)

\* Every parity and temperature around the limits under a good signature,
\* every signature and byte 3 around a good temperature, and the zero word.
Cands523 ==
    { MkWord523(ACURITE523_SIG_FREEZER, 201, p2, byte2, p1, byte1, delta) :
        p2 \in {0, 1}, byte2 \in {0, 8, 11, 15, 23, 24, 127},
        p1 \in {0, 1}, byte1 \in {0, 55, 56, 60, 80, 115, 116, 127},
        delta \in {0, 1} }
    \cup { MkWord523(sig, b3, 1, 11, 0, 60, delta) :
             sig \in {ACURITE523_SIG_FREEZER, ACURITE523_SIG_FRIDGE, 49226, 0},
             b3 \in {201, 64, 0}, delta \in {0, 1} }
    \cup { Words523[i] : i \in DOMAIN Words523 } \cup { ZeroWord }

\* A 40-bit candidate from its fields.
MkWord609(sig, bat, cha, raw, hum, delta) ==
    LET b3 == bat * 64 + cha * 16 + raw \div 512
        b2 == (raw % 512) \div 2
        b1 == (raw % 2) * 128 + hum
    IN  Bytes(<<sig, b3, b2, b1, (sig + b3 + b2 + b1 + delta) % 256>>)

\* Every temperature and humidity around the limits under each signature,
\* the other channel and a bad checksum, the documented blocks, the zero word.
Cands609 ==
    { MkWord609(sig, 2, 2, raw, hum, 0) :
        sig \in {192, 15, 0},
        raw \in {0, 1, 694, 1400, 1401, 1402, 4096, 7391, 7392, 7394, 8066, 8191},
        hum \in {0, 1, 69, 99, 100} }
    \cup { MkWord609(192, 2, cha, raw, 69, delta) :
             cha \in {1, 2}, raw \in {694, 8066, 8191}, delta \in {0, 1} }
    \cup { Words609[i] : i \in DOMAIN Words609 } \cup { ZeroWord }

\* validate_bitstream called on a registered 00523 device with the next
\* candidate of the queue.
Validate523 ==
    /\ probe.model = MODEL_ACURITE523
    /\ probe.queue # <<>>
    /\ \E name \in {"freezer", "fridge"} :
        LET d == IF name = "freezer" THEN freezer ELSE fridge
            v == Acurite523_validate_bitstream(d, Head(probe.queue))
        IN  /\ probe' = [model |-> MODEL_ACURITE523, queue |-> Tail(probe.queue),
                         calls |-> probe.calls + 1, w |-> Head(probe.queue),
                         ok |-> v.ok, before |-> d, after |-> v.d,
                         dispatched |-> FALSE, payload |-> NoPayload,
                         first |-> probe.first]
            /\ freezer' = IF name = "freezer" THEN v.d ELSE freezer
            /\ fridge' = IF name = "fridge" THEN v.d ELSE fridge
            /\ UNCHANGED <<m523, m609, outdoor, prevRfs, env, ev, hist, feed>>

\* validate_bitstream called on the 00609 device with the next candidate.
Validate609 ==
    /\ probe.model = MODEL_ACURITE609
    /\ probe.queue # <<>>
    /\ LET v == Acurite609_validate_bitstream(outdoor, Head(probe.queue))
       IN  /\ probe' = [model |-> MODEL_ACURITE609, queue |-> Tail(probe.queue),
                        calls |-> probe.calls + 1, w |-> Head(probe.queue),
                        ok |-> v.ok, before |-> outdoor, after |-> v.d,
                        dispatched |-> FALSE, payload |-> NoPayload,
                        first |-> IF probe.first = -1 /\ v.ok
                                  THEN Field(Head(probe.queue), 39, 32)
                                  ELSE probe.first]
           /\ outdoor' = v.d
           /\ UNCHANGED <<m523, m609, freezer, fridge, prevRfs, env, ev, hist,
                          feed>>

\* The 00523 branch of parseRf on the next candidate of the queue: the
\* registered devices are tried in order, each as a copy, and the first that
\* accepts gives the Payload.
Dispatch523 ==
    /\ probe.model = MODEL_ACURITE523
    /\ probe.queue # <<>>
    /\ LET r == Walk523(<<freezer, fridge>>, Head(probe.queue))
       IN  probe' = [probe EXCEPT !.queue = Tail(probe.queue),
                                  !.w = Head(probe.queue),
                                  !.ok = r.ok,
                                  !.dispatched = TRUE,
                                  !.payload = r.payload]
    /\ UNCHANGED <<m523, m609, freezer, fridge, outdoor, prevRfs, env, ev,
                   hist, feed>>

NextV == Validate523 \/ Validate609 \/ Dispatch523

\* The candidates of a run: one for a 00523 device; one for the 00609 device,
\* after none or one of the documented blocks, or after a good block whose
\* signature byte is 0.
Queues ==
    { [model |-> MODEL_ACURITE523, queue |-> <<w>>] : w \in Cands523 }
    \cup { [model |-> MODEL_ACURITE609, queue |-> <<w>>] : w \in Cands609 }
    \cup { [model |-> MODEL_ACURITE609, queue |-> <<Words609[i], w>>] :
             i \in DOMAIN Words609, w \in Cands609 }
    \cup { [model |-> MODEL_ACURITE609,
            queue |-> <<MkWord609(0, 2, 2, 694, 69, 0), w>>] : w \in Cands609 }

InitV ==
    /\ Constructed
    /\ env = Idle("none", 0)
    /\ probe \in { [NoProbe EXCEPT !.model = q.model, !.queue = q.queue] :
                     q \in Queues }
    /\ feed = NoFeed

SpecV == InitV /\ [][NextV]_vars

-----------------------------------------------------------------------------
(* Pulse streams fed to Model::parse_rf of both models                     *)

MaxBlocks == 2
MaxSplit == 12
MaxHead == 4
MaxFree == 6
MaxClearAt == 24
MaxResyncCut == 9
MaxGap == 2
MaxEndAt == 3
MaxViolateAt == 2

\* Pulses at the edges of every window of both classification tables.
EdgePulses ==
    { Pulse(rfs, d) :
        rfs \in {0, 1},
        d \in {50, 100, 299, 300, 499, 500, 699, 700, 1199, 1200, 2999, 3000,
               8699, 8700, 8999, 9000, 9999, 10000, 19999, 20000, 39999,
               40000, 59999, 60000} }

Inv523 ==
    { p \in EdgePulses :
        Acurite523_get_rfs_type(p.rfs, p.duration) = ACURITE523_SIGNAL_INV }

Inv609 ==
    { p \in EdgePulses :
        Acurite609_get_rfs_type(p.rfs, p.duration) = ACURITE609_SIGNAL_INV }

Bits523 ==
    { p \in EdgePulses :
        Acurite523_get_rfs_type(p.rfs, p.duration) \in
            {ACURITE523_SIGNAL_BIT_0_OFF, ACURITE523_SIGNAL_BIT_0_ON,
             ACURITE523_SIGNAL_BIT_1_OFF, ACURITE523_SIGNAL_BIT_1_ON} }

\* Pairs (low, high) of pulses the host would pass on that break the 00523
\* framing: one of them is INV, or the two halves are of different bits.
Violations523 ==
    { pr \in { p \in EdgePulses : p.rfs = 0 /\ p.duration >= 100 }
             \X { p \in EdgePulses : p.rfs = 1 /\ p.duration >= 100 } :
        LET lo == Acurite523_get_rfs_type(pr[1].rfs, pr[1].duration)
            hi == Acurite523_get_rfs_type(pr[2].rfs, pr[2].duration)
        IN  \/ lo = ACURITE523_SIGNAL_INV
            \/ hi = ACURITE523_SIGNAL_INV
            \/ lo = ACURITE523_SIGNAL_BIT_0_OFF /\ hi = ACURITE523_SIGNAL_BIT_1_ON
            \/ lo = ACURITE523_SIGNAL_BIT_1_OFF /\ hi = ACURITE523_SIGNAL_BIT_0_ON }

\* Pairs that break the 00609 framing inside a bitstream: one of them is
\* INV, or the high pulse is a CHUNK_START or a BITSTREAM_START.
Violations609 ==
    { pr \in { p \in EdgePulses : p.rfs = 0 /\ p.duration >= 100 }
             \X { p \in EdgePulses : p.rfs = 1 /\ p.duration >= 100 } :
        LET lo == Acurite609_get_rfs_type(pr[1].rfs, pr[1].duration)
            hi == Acurite609_get_rfs_type(pr[2].rfs, pr[2].duration)
        IN  \/ lo = ACURITE609_SIGNAL_INV
            \/ hi \in {ACURITE609_SIGNAL_INV, ACURITE609_SIGNAL_CHUNK_START,
                        ACURITE609_SIGNAL_BITSTREAM_START} }

\* Words for the round trips: the blocks of the air and bit patterns.
RoundTrip523 ==
    { Words523[i] : i \in DOMAIN Words523 }
    \cup { Bytes(<<255, 255, 255, 255, 255, 255>>),
           Bytes(<<170, 170, 170, 170, 170, 170>>),
           Bytes(<<85, 85, 85, 85, 85, 85>>),
           Bytes(<<0, 0, 0, 0, 0, 1>>),
           Bytes(<<128, 0, 0, 0, 0, 0>>),
           Bytes(<<128, 0, 0, 0, 0, 2>>) }

RoundTrip609 == { Words609[i] : i \in DOMAIN Words609 }

\* rt523: four opener pairs, then the 48 bit pairs of w.
\* rt609: the blocks of ws back to back, each a start pair and 40 bit pairs.
\* cross: a rt523 of w with, after its first j bit pairs, a 00609 start pair
\* and the first k bit pairs of head.
\* inv523, inv609: MaxFree pulses, each any pulse that is INV for the model.
\* starve: three opener pairs, then MaxFree pulses, each any 00523 bit signal.
\* clear: the first c pulses of a rt523 of w (model 523) or of a block of w
\* (model 609), then clear() on both models, then the 48 bit pairs of w or
\* the block of w.
Scripts ==
    { [kind |-> "rt523", w |-> w] : w \in RoundTrip523 }
    \cup { [kind |-> "rt609", ws |-> ws] :
             ws \in UNION { [1..n -> RoundTrip609] : n \in 1..MaxBlocks } }
    \cup { [kind |-> "cross", w |-> w, j |-> j, head |-> Words609[1], k |-> k] :
             w \in RoundTrip523, j \in 0..MaxSplit, k \in 0..MaxHead }
    \cup { [kind |-> k] : k \in {"inv523", "inv609", "starve"} }
    \cup { [kind |-> "gap", g |-> g] : g \in 1..MaxGap }
    \cup { [kind |-> "violate", model |-> MODEL_ACURITE523, w |-> Words523[1],
            j |-> j, bad |-> bad] :
             j \in 1..MaxViolateAt, bad \in Violations523 }
    \cup { [kind |-> "violate", model |-> MODEL_ACURITE609, w |-> Words609[1],
            j |-> j, bad |-> bad] :
             j \in 1..MaxViolateAt, bad \in Violations609 }
    \cup { [kind |-> "end", w |-> Words523[1], j |-> j, low |-> low,
            high |-> high] :
             j \in 0..MaxEndAt,
             low \in { p \in EdgePulses : p.rfs = 0 /\ p.duration >= 100 },
             high \in { p \in EdgePulses :
                          Acurite523_get_rfs_type(p.rfs, p.duration)
                              = ACURITE523_SIGNAL_CHUNK_END } }
    \cup { [kind |-> "resync", w0 |-> Words523[2], j |-> j, w |-> Words523[i]] :
             i \in DOMAIN Words523, j \in 0..MaxResyncCut }
    \cup { [kind |-> "clear", model |-> MODEL_ACURITE523, w |-> Words523[i],
            c |-> c] : i \in DOMAIN Words523, c \in 0..MaxClearAt }
    \cup { [kind |-> "clear", model |-> MODEL_ACURITE609, w |-> Words609[i],
            c |-> c] : i \in DOMAIN Words609, c \in 0..MaxClearAt }

\* Pulse n (from 1) of a stream made of pairs, pair j being PairAt(j).
Half(pair, n) == pair[2 - (n % 2)]

Rt523Pulse(w, n) ==
    IF n <= 8 THEN Half(Opener, n)
    ELSE Half(Pair523(Bit(w, ACURITE523_SIGNAL_BIT_LENGTH - ((n - 7) \div 2))), n)

\* Pulse n of the start pair and the bit pairs of w.
Block609Pulse(w, n) ==
    IF n <= 2 THEN Half(Start609, n)
    ELSE Half(Pair609(Bit(w, ACURITE609_SIGNAL_BIT_LENGTH - ((n - 1) \div 2))), n)

Block609Len == 2 * (ACURITE609_SIGNAL_BIT_LENGTH + 1)

Rt523Len == 8 + 2 * ACURITE523_SIGNAL_BIT_LENGTH

ScriptLen(s) ==
    IF s.kind = "rt523" THEN Rt523Len
    ELSE IF s.kind = "rt609" THEN Len(s.ws) * Block609Len
    ELSE IF s.kind = "cross" THEN Rt523Len + 2 + 2 * s.k
    ELSE IF s.kind \in {"inv523", "inv609"} THEN MaxFree
    ELSE IF s.kind = "starve" THEN 6 + MaxFree
    ELSE IF s.kind = "gap" THEN 6 + 2 * s.g + 2
    ELSE IF s.kind = "end" THEN 8 + 2 * s.j + 2
    ELSE IF s.kind = "violate"
    THEN (IF s.model = MODEL_ACURITE523 THEN 8 ELSE 2) + 2 * s.j + 2
    ELSE IF s.kind = "resync" THEN 8 + 2 * s.j + Rt523Len
    ELSE IF s.kind = "clear"
    THEN s.c + (IF s.model = MODEL_ACURITE523
                THEN 2 * ACURITE523_SIGNAL_BIT_LENGTH ELSE Block609Len)
    ELSE 0

ScriptPulse(s, n) ==
    IF s.kind = "rt523" THEN Rt523Pulse(s.w, n)
    ELSE IF s.kind = "rt609"
    THEN Block609Pulse(s.ws[((n - 1) \div Block609Len) + 1],
                       ((n - 1) % Block609Len) + 1)
    ELSE IF s.kind = "violate"
    THEN LET head == (IF s.model = MODEL_ACURITE523 THEN 8 ELSE 2) + 2 * s.j
         IN  IF n > head THEN s.bad[n - head]
             ELSE IF s.model = MODEL_ACURITE523 THEN Rt523Pulse(s.w, n)
             ELSE Block609Pulse(s.w, n)
    ELSE IF s.kind = "end"
    THEN IF n <= 8 + 2 * s.j THEN Rt523Pulse(s.w, n)
         ELSE IF n = 8 + 2 * s.j + 1 THEN s.low
         ELSE s.high
    ELSE IF s.kind = "resync"
    THEN IF n <= 8 + 2 * s.j THEN Rt523Pulse(s.w0, n)
         ELSE Rt523Pulse(s.w, n - (8 + 2 * s.j))
    ELSE IF s.kind = "clear"
    THEN IF s.model = MODEL_ACURITE523
         THEN Rt523Pulse(s.w, IF n <= s.c THEN n ELSE 8 + (n - s.c))
         ELSE Block609Pulse(s.w, IF n <= s.c THEN n ELSE n - s.c)
    ELSE LET before == 8 + 2 * s.j
             inside == 2 + 2 * s.k
         IN  IF n <= before THEN Rt523Pulse(s.w, n)
             ELSE IF n <= before + inside THEN Block609Pulse(s.head, n - before)
             ELSE Rt523Pulse(s.w, n - inside)

\* The pulses that may come as pulse n of the stream.
NextPulses(s, n) ==
    IF s.kind = "inv523" THEN Inv523
    ELSE IF s.kind = "inv609" THEN Inv609
    ELSE IF s.kind = "starve"
    THEN IF n <= 6 THEN { Half(Opener, n) } ELSE Bits523
    ELSE IF s.kind = "gap"
    THEN IF n <= 6 \/ n > 6 + 2 * s.g THEN { Half(Opener, n) }
         ELSE { p \in Bits523 \cup Inv523 : p.rfs = 1 - (n % 2) }
    ELSE { ScriptPulse(s, n) }

InitFeed ==
    /\ Constructed
    /\ env = Idle("none", 0)
    /\ probe = NoProbe
    /\ feed \in { [script |-> s, n |-> 0, cleared |-> FALSE, again |-> FALSE] :
                    s \in Scripts }

\* The next pulse of the stream goes to parse_rf of each model.
Feed ==
    /\ feed.n < ScriptLen(feed.script)
    /\ feed.script.kind = "clear" /\ feed.n = feed.script.c => feed.cleared
    /\ \E p \in NextPulses(feed.script, feed.n + 1) :
       LET p5 == Acurite523_parse_rf(m523, p.duration, p.rfs)
           p6 == Acurite609_parse_rf(m609, p.duration, p.rfs)
       IN  /\ m523' = p5.m
           /\ m609' = p6.m
           /\ ev' = [NoEvent EXCEPT !.called = TRUE, !.duration = p.duration,
                                    !.rfs = p.rfs, !.r523 = p5.result,
                                    !.called609 = TRUE, !.r609 = p6.result]
    /\ feed' = [feed EXCEPT !.n = @ + 1]
    /\ UNCHANGED <<freezer, fridge, outdoor, prevRfs, env, hist, probe>>

\* clear() is called on both models where the stream says so.
FeedClear ==
    /\ feed.script.kind = "clear"
    /\ feed.n = feed.script.c
    /\ ~feed.cleared
    /\ m523' = Acurite523_clear(m523)
    /\ m609' = Acurite609_clear(m609)
    /\ feed' = [feed EXCEPT !.cleared = TRUE]
    /\ ev' = NoEvent
    /\ UNCHANGED <<freezer, fridge, outdoor, prevRfs, env, hist, probe>>

\* clear() is called once more, right after the first call.
FeedClearAgain ==
    /\ feed.script.kind = "clear"
    /\ feed.n = feed.script.c
    /\ feed.cleared /\ ~feed.again
    /\ m523' = Acurite523_clear(m523)
    /\ m609' = Acurite609_clear(m609)
    /\ feed' = [feed EXCEPT !.again = TRUE]
    /\ ev' = NoEvent
    /\ UNCHANGED <<freezer, fridge, outdoor, prevRfs, env, hist, probe>>

NextFeed == Feed \/ FeedClear \/ FeedClearAgain

SpecFeed == InitFeed /\ [][NextFeed]_vars


-----------------------------------------------------------------------------
(* Properties                                                              *)

\* Byte k of a word, byte 0 being bits 7..0.
ByteOf(w, k) == Field(w, 8 * k + 7, 8 * k)

LowByteIsSum523(w) ==
    ByteOf(w, 0) = (ByteOf(w, 1) + ByteOf(w, 2) + ByteOf(w, 3) + ByteOf(w, 4)
                    + ByteOf(w, 5)) % 256

LowByteIsSum609(w) ==
    ByteOf(w, 0) = (ByteOf(w, 1) + ByteOf(w, 2) + ByteOf(w, 3) + ByteOf(w, 4)) % 256

\* 1 when the number of set bits of a 7-bit value is odd, 0 when it is even.
Parity7(v) ==
    (v + v \div 2 + v \div 4 + v \div 8 + v \div 16 + v \div 32 + v \div 64) % 2

\* C1: in a session driven through parseRf, a Payload is created only on an
\* event where parse_rf of the Payload's model returned a non-zero candidate,
\* completed by that pulse from BIT_LENGTH accumulated bits (48 for 00523, 40
\* for 00609), that a registered device of the model accepts; and the low
\* byte of that candidate is the sum of its higher bytes mod 256.
C1_PayloadOnlyFromValidatedCandidate ==
    [][ ev'.payload # NoPayload =>
          /\ ev'.called /\ ev'.ok
          /\ \/ /\ ev'.payload.model = MODEL_ACURITE523
                /\ NonZero(ev'.r523)
                /\ m523.bitstream_size = ACURITE523_SIGNAL_BIT_LENGTH - 1
                /\ \E d \in {freezer, fridge} :
                      /\ Acurite523_validate_bitstream(d, ev'.r523).ok
                      /\ ev'.payload.device = d.device
                /\ LowByteIsSum523(ev'.r523)
             \/ /\ ev'.payload.model = MODEL_ACURITE609
                /\ NonZero(ev'.r609)
                /\ m609.bitstream_size = ACURITE609_SIGNAL_BIT_LENGTH - 1
                /\ Acurite609_validate_bitstream(outdoor, ev'.r609).ok
                /\ ev'.payload.device = outdoor.device
                /\ LowByteIsSum609(ev'.r609) ]_vars

\* A Payload of the fridge has been created from a candidate of the 00523.
C1_Witness ==
    /\ ev.ok
    /\ ev.payload.model = MODEL_ACURITE523
    /\ ev.payload.device = DEVICE_FRIDGE
    /\ NonZero(ev.r523)

\* The conditions C2 lists for a 48-bit candidate and a device signature.
C2_Conditions(w, signature) ==
    LET raw == Field(w, 22, 16) * 128 + Field(w, 14, 8)
    IN  /\ w # ZeroWord
        /\ Field(w, 47, 32) = signature
        /\ LowByteIsSum523(w)
        /\ Bit(w, 23) = Parity7(Field(w, 22, 16))
        /\ Bit(w, 15) = Parity7(Field(w, 14, 8))
        /\ 1080 <= raw /\ raw < 3060

\* C2: Acurite523::Device::validate_bitstream accepts a 48-bit candidate if
\* and only if it is non-zero, bits 47..32 are the device's signature, the
\* low byte is the sum mod 256 of the five bytes above it, parity bits 23
\* and 15 are the parities of bits 22..16 and 14..8, and the raw temperature
\* satisfies 1080 <= raw < 3060 (-40 C accepted, 70 C rejected).
C2_Validate523Iff ==
    (probe.model = MODEL_ACURITE523 /\ probe.calls > 0) =>
        (probe.ok <=> C2_Conditions(probe.w, probe.before.signature))

\* The freezer has accepted a candidate of exactly -40 C (raw 1080).
C2_Witness ==
    /\ probe.model = MODEL_ACURITE523
    /\ probe.calls > 0
    /\ probe.ok
    /\ Field(probe.w, 22, 16) * 128 + Field(probe.w, 14, 8) = 1080

\* C3: a 00609 candidate with a valid signature, channel 2, a valid checksum,
\* a humidity in 1..99 and a raw temperature with the sign bit 0x1000 set is
\* decoded as -(0x2000 - raw)/20 and accepted when that is within [-40, 70];
\* the documented block with raw = 0x1F82 (-6.2 C, 69 %) is accepted.
C3_SignBitTemperatureAccepted ==
    LET w == probe.w
        raw == Field(w, 27, 15)
        hum == Field(w, 14, 8)
    IN  ( /\ probe.model = MODEL_ACURITE609 /\ probe.calls > 0
          /\ NonZero(w)
          /\ probe.before.signature \in {0, Field(w, 39, 32)}
          /\ Field(w, 29, 28) = ACURITE609_CHANNEL_ID
          /\ LowByteIsSum609(w)
          /\ 1 <= hum /\ hum <= 99
          /\ raw >= 4096
          /\ -800 <= raw - 8192 /\ raw - 8192 <= 1400 )
        => (probe.ok /\ probe.after.temperature = raw - 8192)

\* The properties C4 lists for a 40-bit candidate.
C4_Properties(w) ==
    LET raw == Field(w, 27, 15)
        hum == Field(w, 14, 8)
        temp == IF raw >= 4096 THEN raw - 8192 ELSE raw     \* over 20
    IN  /\ w # ZeroWord
        /\ Field(w, 29, 28) = 2
        /\ LowByteIsSum609(w)
        /\ 1 <= hum /\ hum <= 99
        /\ -40 * 20 <= temp /\ temp <= 70 * 20

\* C4: every 40-bit candidate accepted by Acurite609::Device::validate_bitstream
\* is non-zero, has channel bits 29..28 = 2, a low byte equal to the sum mod
\* 256 of the four bytes above it, a humidity in 1..99 and a temperature
\* (bits 27..15 as 13-bit two's complement, over 20) within [-40, 70]; a
\* candidate violating one of these is rejected and the device's latched
\* fields stay as they were.
C4_Accepted609Valid ==
    (probe.model = MODEL_ACURITE609 /\ probe.calls > 0) =>
        /\ probe.ok => C4_Properties(probe.w)
        /\ ~C4_Properties(probe.w) => (~probe.ok /\ probe.after = probe.before)

\* The 00609 device has accepted a candidate with a negative temperature.
C4_Witness ==
    /\ probe.model = MODEL_ACURITE609
    /\ probe.calls > 0
    /\ probe.ok
    /\ Field(probe.w, 27, 15) >= 4096

\* C5: in a session driven through parseRf, once a 00609 candidate with
\* signature byte s has been accepted, every later 00609 candidate whose
\* bits 39..32 differ from s produces no Payload.
C5_SignatureEnforced ==
    (ev.ok /\ ev.payload.model = MODEL_ACURITE609) =>
        Field(ev.r609, 39, 32) = hist.sig609

\* C6: from the initial state, four (BITSTREAM_OFF, BITSTREAM_ON) pairs and
\* then the 48 matched bit pairs of a non-zero word W, MSB first, make
\* Acurite523::Model::parse_rf return 0 on every pulse but the last and W on
\* the last.
C6_RoundTrip523 ==
    (feed.script.kind = "rt523" /\ feed.n >= 1) =>
        ev.r523 = IF feed.n = Rt523Len THEN feed.script.w ELSE ZeroWord

\* The last pulse of the stream of C0 49 C9 8B 3C 99 has returned that word.
C6_Witness ==
    /\ feed.script.kind = "rt523"
    /\ feed.n = Rt523Len
    /\ feed.script.w = Words523[1]
    /\ ev.r523 = Words523[1]

\* C7: from the initial state, N >= 1 well-formed 00609 blocks back to back,
\* each an OFF pulse and a BITSTREAM_START then 40 (OFF, bit) pairs of a
\* non-zero word W_i, MSB first, make Acurite609::Model::parse_rf return W_i on
\* the 40th bit pulse of block i and 0 on every other pulse.
C7_RoundTrip609 ==
    (feed.script.kind = "rt609" /\ feed.n >= 1) =>
        ev.r609 = IF feed.n % Block609Len = 0
                  THEN feed.script.ws[feed.n \div Block609Len]
                  ELSE ZeroWord

\* The second block of a burst of two different words has been returned.
C7_Witness ==
    /\ feed.script.kind = "rt609"
    /\ Len(feed.script.ws) = 2
    /\ feed.script.ws[1] # feed.script.ws[2]
    /\ feed.n = 2 * Block609Len
    /\ ev.r609 = feed.script.ws[2]

\* C8 as stated: within one burst (one open chunk) of repeated valid blocks,
\* after the first Payload and its clear() no further Payload comes from the
\* remaining blocks of that burst.
C8_FirstBlockWins ==
    hist.burst523 <= 1 /\ hist.burst609 <= 1

\* C8: the clear() that follows an acceptance empties the bitstream of the
\* model whose candidate was accepted and leaves its chunk open, so the
\* remaining blocks of the burst are decoded and validated like the first.
C8_ClearKeepsBurstOpen ==
    ev.ok =>
        IF ev.payload.model = MODEL_ACURITE523
        THEN /\ m523.chunk_open
             /\ ~m523.bitstream_open
             /\ m523.bitstream_size = 0
             /\ m523.bitstream = ZeroWord
        ELSE /\ m609.chunk_open
             /\ ~m609.bitstream_open
             /\ m609.bitstream_size = 0
             /\ m609.bitstream = ZeroWord

\* A second Payload of the same device has come from one open chunk.
C8_Witness ==
    /\ ev.ok
    /\ ev.payload.model = MODEL_ACURITE523
    /\ hist.burst523 = 2
    /\ m523.chunk_open

\* C9 as stated: on no event do both models' parse_rf return a non-zero
\* candidate.
C9_NeverBoth ==
    ~(NonZero(ev.r523) /\ NonZero(ev.r609))

\* C9: both models' parse_rf return a non-zero candidate on the same event
\* only when it is a high pulse of 300 to 499 us, the one window that is a
\* bit for both (BIT_0_ON for the 00523, BIT_0 for the 00609).
C9_BothOnlyOnSharedWindow ==
    (NonZero(ev.r523) /\ NonZero(ev.r609)) =>
        /\ ev.rfs = 1
        /\ 300 <= ev.duration /\ ev.duration < 500

\* One pulse has completed a 48-bit word and a 40-bit word.
C9_Witness ==
    /\ feed.script.kind = "cross"
    /\ NonZero(ev.r523)
    /\ NonZero(ev.r609)
    /\ ev.r523 = feed.script.w

\* C10: after every parse_rf and every clear(), bitstream_size <= BIT_LENGTH,
\* 48 for the 00523 and 40 for the 00609.
C10_SizeWithinLength ==
    /\ m523.bitstream_size <= ACURITE523_SIGNAL_BIT_LENGTH
    /\ m609.bitstream_size <= ACURITE609_SIGNAL_BIT_LENGTH

\* A full 40-bit candidate has been returned and rejected, and the size is
\* back to 0.
C10_Witness ==
    /\ ev.called
    /\ NonZero(ev.r609)
    /\ ~ev.ok
    /\ m609.bitstream_size = 0

\* C11: from the initial state, a stream in which every pulse classifies as
\* INV for a model makes that model's parse_rf return 0 on every call and
\* leaves its chunk closed.
C11_InvStreamEmitsNothing ==
    /\ (feed.script.kind = "inv523" /\ feed.n >= 1) =>
           (ev.r523 = ZeroWord /\ ~m523.chunk_open)
    /\ (feed.script.kind = "inv609" /\ feed.n >= 1) =>
           (ev.r609 = ZeroWord /\ ~m609.chunk_open)

\* A whole stream of pulses that are INV for the 00523 has been fed, and it
\* has opened the chunk of the 00609.
C11_Witness ==
    /\ feed.script.kind = "inv523"
    /\ feed.n = MaxFree
    /\ m523.last_rfs_type = ACURITE523_SIGNAL_INV
    /\ m609.chunk_open

\* C12: from the initial state, after only three BITSTREAM_ON pulses, bit
\* signals leave the 00523 chunk closed and parse_rf returns 0 on every call.
C12_PreambleStarvation ==
    (feed.script.kind = "starve" /\ feed.n >= 1) =>
        (ev.r523 = ZeroWord /\ ~m523.chunk_open)

\* Three openers have been counted and bit signals have followed.
C12_Witness ==
    /\ feed.script.kind = "starve"
    /\ feed.n = 6 + MaxFree
    /\ m523.bitstream_opener_count = 3
    /\ m523.last_rfs_type = ACURITE523_SIGNAL_BIT_1_ON

\* C13: when a completed candidate is rejected by every device, no Payload
\* is produced, clear() is not invoked (the last class is still that of the
\* bit pulse) and the model that returned it has chunk_open = true and
\* bitstream_size = 0; and a whole block sent to a model whose chunk is open
\* and which holds none but this block's bits is returned as its own word.
C13_RejectionKeepsBurst ==
    [][ /\ (ev'.called /\ ~ev'.ok /\ NonZero(ev'.r523)) =>
             /\ ev'.payload = NoPayload
             /\ m523'.chunk_open /\ m523'.bitstream_size = 0
             /\ m523'.last_rfs_type \in {ACURITE523_SIGNAL_BIT_0_ON,
                                         ACURITE523_SIGNAL_BIT_1_ON}
        /\ (ev'.called /\ ~ev'.ok /\ NonZero(ev'.r609)) =>
             /\ ev'.payload = NoPayload
             /\ m609'.chunk_open /\ m609'.bitstream_size = 0
             /\ m609'.last_rfs_type \in {ACURITE609_SIGNAL_BIT_0,
                                         ACURITE609_SIGNAL_BIT_1}
        /\ (/\ env.i = BlockPairs(env.tx) /\ env.pend # NoPulse /\ ev'.called
            /\ env.tx = 523
            /\ m523.chunk_open
            /\ m523.bitstream_size = ACURITE523_SIGNAL_BIT_LENGTH - 1) =>
             ev'.r523 = Words523[env.w]
        /\ (/\ env.i = BlockPairs(env.tx) /\ env.pend # NoPulse /\ ev'.called
            /\ env.tx = 609
            /\ m609.chunk_open /\ m609.bitstream_open
            /\ m609.bitstream_size = ACURITE609_SIGNAL_BIT_LENGTH - 1) =>
             ev'.r609 = Words609[env.w] ]_vars

\* After a rejection in a burst of the 00523, a later block of the burst has
\* been returned as its own word and accepted.
C13_Witness ==
    /\ hist.rej523
    /\ ev.ok
    /\ ev.r523 = Words523[1]
    /\ env.tx = 523 /\ env.w = 1 /\ env.i = BlockPairs(523)

\* C14: after a candidate is accepted, clear() has run on both models: each
\* has bitstream = 0, bitstream_size = 0, bitstream_open = false and last
\* class INV, and the 00523 opener count is 0.
C14_AcceptClearsBothModels ==
    ev.ok =>
        /\ m523.bitstream = ZeroWord /\ m523.bitstream_size = 0
        /\ ~m523.bitstream_open
        /\ m523.last_rfs_type = ACURITE523_SIGNAL_INV
        /\ m523.bitstream_opener_count = 0
        /\ m609.bitstream = ZeroWord /\ m609.bitstream_size = 0
        /\ ~m609.bitstream_open
        /\ m609.last_rfs_type = ACURITE609_SIGNAL_INV

\* A 00523 candidate is accepted while the 00609 model is inside a chunk of
\* its own.
C14_Witness ==
    /\ ev.ok /\ NonZero(ev.r523) /\ ~ev.called609
    /\ ev.payload.model = MODEL_ACURITE523
    /\ m609.chunk_open

\* C15: Acurite523::Model::clear() leaves chunk_open as it was and sets the
\* bitstream, its size and the opener count to 0, bitstream_open to false and
\* the last class to INV; and when the chunk is open at the clear(), the 48
\* bit pairs fed afterwards are returned as their word by the last of them,
\* with no new preamble, and nothing is returned before.
C15_ClearKeepsChunk523 ==
    [][ /\ (feed.script.kind = "clear" /\ ~feed.cleared /\ feed'.cleared) =>
             /\ m523'.chunk_open = m523.chunk_open
             /\ m523'.bitstream = ZeroWord /\ m523'.bitstream_size = 0
             /\ ~m523'.bitstream_open
             /\ m523'.bitstream_opener_count = 0
             /\ m523'.last_rfs_type = ACURITE523_SIGNAL_INV
        /\ (/\ feed.script.kind = "clear"
            /\ feed.script.model = MODEL_ACURITE523
            /\ feed.cleared /\ feed'.n = feed.n + 1
            /\ m523.chunk_open) =>
             ev'.r523 = IF feed'.n = feed.script.c
                                     + 2 * ACURITE523_SIGNAL_BIT_LENGTH
                        THEN feed.script.w ELSE ZeroWord ]_vars

\* clear() came after the preamble and some bits of a block, and the 48 bit
\* pairs fed since have been returned as their word.
C15_Witness ==
    /\ feed.script.kind = "clear" /\ feed.script.model = MODEL_ACURITE523
    /\ feed.cleared /\ feed.script.c > 8
    /\ feed.n = feed.script.c + 2 * ACURITE523_SIGNAL_BIT_LENGTH
    /\ ev.r523 = feed.script.w /\ NonZero(ev.r523)
    /\ m523.chunk_open

\* C16 as stated: after clear() the 00609 model has bitstream = 0,
\* bitstream_size = 0, bitstream_open = false, last class INV and
\* chunk_open = false, whatever the state before.
C16_Clear609ResetsAll ==
    (feed.script.kind = "clear" /\ feed.cleared /\ feed.n = feed.script.c) =>
        /\ m609.bitstream = ZeroWord /\ m609.bitstream_size = 0
        /\ ~m609.bitstream_open
        /\ m609.last_rfs_type = ACURITE609_SIGNAL_INV
        /\ ~m609.chunk_open

\* C16, amended: Acurite609::Model::clear() sets bitstream = 0,
\* bitstream_size = 0, bitstream_open = false and last class INV, and leaves
\* chunk_open as it was.
C16_Clear609KeepsChunk ==
    [][ (feed.script.kind = "clear" /\ ~feed.cleared /\ feed'.cleared) =>
          /\ m609'.bitstream = ZeroWord /\ m609'.bitstream_size = 0
          /\ ~m609'.bitstream_open
          /\ m609'.last_rfs_type = ACURITE609_SIGNAL_INV
          /\ m609'.chunk_open = m609.chunk_open ]_vars

\* clear() has just run on a 00609 model that was inside a chunk, with bits
\* in its bitstream, and the chunk is still open.
C16_Witness ==
    /\ feed.script.kind = "clear" /\ feed.script.model = MODEL_ACURITE609
    /\ feed.cleared /\ feed.n = feed.script.c /\ feed.script.c > 4
    /\ m609.chunk_open
    /\ m609.bitstream_size = 0

\* C17: for any 48-bit candidate at most one registered 00523 device
\* accepts it; a Payload is produced exactly when one does, and it carries
\* model 1592, status 1, humidity 0 and the device of the signature (0xC049:
\* 9690, 0xC07C: 7784); a candidate with any other signature yields no
\* Payload.
C17_DeviceExclusivity ==
    probe.dispatched =>
        LET sig == Field(probe.w, 47, 32)
            a1 == Acurite523_validate_bitstream(freezer, probe.w).ok
            a2 == Acurite523_validate_bitstream(fridge, probe.w).ok
        IN  /\ ~(a1 /\ a2)
            /\ probe.ok <=> (a1 \/ a2)
            /\ probe.ok =>
                 /\ probe.payload.model = 1592
                 /\ probe.payload.status = 1
                 /\ probe.payload.humidity = 0
                 /\ sig \in {49225, 49276}
                 /\ sig = 49225 => (a1 /\ probe.payload.device = 9690)
                 /\ sig = 49276 => (a2 /\ probe.payload.device = 7784)
            /\ ~probe.ok => probe.payload = NoPayload
            /\ sig \notin {49225, 49276} => ~probe.ok

\* The documented fridge block has been dispatched and gave a Payload of the
\* fridge.
C17_Witness ==
    /\ probe.dispatched /\ probe.ok
    /\ probe.w = Words523[2]
    /\ probe.payload.device = DEVICE_FRIDGE

C19_OpenBitstreamInsideChunk ==
    /\ m523.bitstream_open => m523.chunk_open
    /\ m609.bitstream_open => m609.chunk_open

\* The 00609 model has closed its chunk on a CHUNK_END pulse, and the
\* bitstream is closed with it.
C19_Witness ==
    /\ ev.called
    /\ m609.last_rfs_type = ACURITE609_SIGNAL_CHUNK_END
    /\ ~m609.chunk_open /\ ~m609.bitstream_open
    /\ m523.bitstream_open /\ m523.chunk_open

\* The low k bits of w are all zero.
LowBitsZero(w, k) ==
    IF k <= 24 THEN w[2] % Pow2[k] = 0
    ELSE w[2] = 0 /\ w[1] % Pow2[k - 24] = 0

\* C20: in both models, in every reachable state, bitstream < 2^BIT_LENGTH
\* and its low (BIT_LENGTH - bitstream_size) bits are zero.
C20_OnlyReceivedBitsSet ==
    /\ m523.bitstream[1] < Pow2[ACURITE523_SIGNAL_BIT_LENGTH - 24]
    /\ m523.bitstream[2] < Pow2[24]
    /\ LowBitsZero(m523.bitstream,
                   ACURITE523_SIGNAL_BIT_LENGTH - m523.bitstream_size)
    /\ m609.bitstream[1] < Pow2[ACURITE609_SIGNAL_BIT_LENGTH - 24]
    /\ m609.bitstream[2] < Pow2[24]
    /\ LowBitsZero(m609.bitstream,
                   ACURITE609_SIGNAL_BIT_LENGTH - m609.bitstream_size)

\* The 00523 model holds the first 47 bits of the freezer block, one short
\* of a word: bit 3 is set and bit 0 is not yet received.
C20_Witness ==
    /\ m523.bitstream_size = ACURITE523_SIGNAL_BIT_LENGTH - 1
    /\ Field(m523.bitstream, 47, 32) = ACURITE523_SIG_FREEZER
    /\ Bit(m523.bitstream, 3) = 1
    /\ Bit(m523.bitstream, 0) = 0

\* C21: the host loop never calls parseRf with a duration under 100
\* microseconds: in every step in which parseRf is called or the state of a
\* framing machine changes, the duration of the pulse is at least 100; and
\* the first sample, with no previous level, calls nothing.
C21_ShortPulsesDiscarded ==
    [][ /\ (ev'.called \/ m523' # m523 \/ m609' # m609) => ev'.duration >= 100
        /\ prevRfs < 0 => (~ev'.called /\ m523' = m523 /\ m609' = m609) ]_vars

\* A low level held for 99 microseconds has ended inside an open 00523 chunk
\* and parseRf was not called.
C21_Witness ==
    /\ ~ev.called
    /\ ev.rfs = 0 /\ ev.duration = 99
    /\ m523.chunk_open
    /\ m523.last_rfs_type # ACURITE523_SIGNAL_INV

\* C22: clear() is idempotent in both models: a second clear() right after
\* the first leaves the framing state exactly as the first left it, and in
\* every reachable state clearing twice gives what clearing once gives.
C22_ClearIdempotent ==
    [][ /\ (feed.cleared /\ ~feed.again /\ feed'.again) =>
             (m523' = m523 /\ m609' = m609)
        /\ Acurite523_clear(Acurite523_clear(m523)) = Acurite523_clear(m523)
        /\ Acurite609_clear(Acurite609_clear(m609)) = Acurite609_clear(m609)
      ]_vars

\* clear() has been called twice in a row on a 00609 model that was inside
\* a chunk with bits in its bitstream; the chunk is still open.
C22_Witness ==
    /\ feed.script.kind = "clear" /\ feed.script.model = MODEL_ACURITE609
    /\ feed.again /\ feed.n = feed.script.c /\ feed.script.c > 4
    /\ m609.chunk_open /\ ~m609.bitstream_open
    /\ m609.last_rfs_type = ACURITE609_SIGNAL_INV

\* C23: after a preamble and a block cut short by lost pulses (the chunk is
\* open and 0 <= bitstream_size < 48), a complete block, four
\* (BITSTREAM_OFF, BITSTREAM_ON) pairs followed by the 48 bit pairs of W,
\* makes the 00523 parse_rf return exactly W on the block's last pulse.
C23_ResyncAfterLostBlock ==
    (feed.script.kind = "resync" /\ feed.n = ScriptLen(feed.script)) =>
        ev.r523 = feed.script.w

\* What the code does instead: the bits left by the cut block stay in the
\* buffer, so the block's last pulse returns W only when nothing was left.
C23_Observed ==
    /\ (feed.script.kind = "resync" /\ feed.n = ScriptLen(feed.script)) =>
          /\ ev.r523 = IF feed.script.j = 0 THEN feed.script.w ELSE ZeroWord
          /\ m523.bitstream_size = feed.script.j
    /\ (feed.script.kind = "resync" /\ feed.script.j > 0
           /\ feed.n = ScriptLen(feed.script) - 2 * feed.script.j) =>
          /\ NonZero(ev.r523)
          /\ Field(ev.r523, 47, 48 - feed.script.j)
               = Field(feed.script.w0, 47, 48 - feed.script.j)
          /\ Field(ev.r523, 23, 0)
               = Field(feed.script.w, 23 + feed.script.j, feed.script.j)

\* C24: a 00523 chunk is opened only by four contiguous BITSTREAM_ON pulses:
\* after three openers, then pairs whose ON pulse is a bit or an INV pulse,
\* then one more opener, the chunk is not open.
C24_SeparatedOpenersDoNotOpen ==
    (feed.script.kind = "gap" /\ feed.n = ScriptLen(feed.script)) =>
        ~m523.chunk_open

\* What the code does instead: the count is kept across the other pulses
\* and the fourth opener opens the chunk.
C24_Observed ==
    (feed.script.kind = "gap" /\ feed.n >= 6) =>
        IF feed.n = ScriptLen(feed.script)
        THEN m523.chunk_open /\ m523.bitstream_opener_count = 0
        ELSE ~m523.chunk_open /\ m523.bitstream_opener_count = 3

\* The 00523 class of the pulse of the last parse_rf call.
C25_Class(e) == Acurite523_get_rfs_type(e.rfs, e.duration)

\* C25 as stated: whenever a CHUNK_END pulse is processed by the 00523 model
\* while chunk_open is true, afterwards chunk_open = false, bitstream_size = 0
\* and bitstream = 0, whatever the class of the preceding pulse.
C25_ChunkEndAlwaysCloses ==
    [][ (/\ ev'.called
         /\ C25_Class(ev') = ACURITE523_SIGNAL_CHUNK_END
         /\ m523.chunk_open) =>
            /\ ~m523'.chunk_open
            /\ m523'.bitstream_size = 0
            /\ m523'.bitstream = ZeroWord ]_vars

\* C25, amended: a CHUNK_END pulse processed while chunk_open is true closes
\* the chunk (chunk_open = false, bitstream_size = 0, bitstream = 0),
\* whatever the partial size, when the preceding pulse was classified
\* BIT_0_OFF; after a preceding pulse of any other class it changes nothing
\* but the last class, and the chunk stays open.
C25_ChunkEndClosesAfterBit0Off ==
    [][ (/\ ev'.called
         /\ C25_Class(ev') = ACURITE523_SIGNAL_CHUNK_END
         /\ m523.chunk_open) =>
            IF m523.last_rfs_type = ACURITE523_SIGNAL_BIT_0_OFF
            THEN /\ ~m523'.chunk_open
                 /\ m523'.bitstream_size = 0
                 /\ m523'.bitstream = ZeroWord
                 /\ ev'.r523 = ZeroWord
            ELSE m523' = [m523 EXCEPT
                            !.last_rfs_type = ACURITE523_SIGNAL_CHUNK_END]
      ]_vars

\* A CHUNK_END after a BIT_0_OFF pulse has closed a chunk that held three
\* bits.
C25_Witness ==
    /\ feed.script.kind = "end" /\ feed.n = ScriptLen(feed.script)
    /\ feed.script.j = MaxEndAt
    /\ C25_Class(feed.script.low) = ACURITE523_SIGNAL_BIT_0_OFF
    /\ m523.last_rfs_type = ACURITE523_SIGNAL_CHUNK_END
    /\ ~m523.chunk_open /\ m523.bitstream_size = 0

\* C26: when a pulse classifies as INV, or a class illegal for the current
\* state arrives, while a chunk is open with 0 < bitstream_size < BIT_LENGTH,
\* the partial bitstream is dropped: bitstream_size and bitstream are 0
\* after the offending pair.
C26_ViolationDropsPartial ==
    (feed.script.kind = "violate" /\ feed.n = ScriptLen(feed.script)) =>
        IF feed.script.model = MODEL_ACURITE523
        THEN m523.bitstream_size = 0 /\ m523.bitstream = ZeroWord
        ELSE m609.bitstream_size = 0 /\ m609.bitstream = ZeroWord

\* What the code does instead: the offending pair is ignored and the bits
\* received so far stay in the buffer, with the chunk open.
C26_Observed ==
    (feed.script.kind = "violate" /\ feed.n = ScriptLen(feed.script)) =>
        LET j == feed.script.j
        IN  IF feed.script.model = MODEL_ACURITE523
            THEN /\ m523.bitstream_size = j /\ m523.chunk_open
                 /\ Field(m523.bitstream, 47, 48 - j)
                      = Field(feed.script.w, 47, 48 - j)
            ELSE /\ m609.bitstream_size = j /\ m609.chunk_open
                 /\ Field(m609.bitstream, 39, 40 - j)
                      = Field(feed.script.w, 39, 40 - j)

\* C27: in a sequence of validate_bitstream calls on one Acurite609::Device,
\* every candidate accepted after the first accepted one carries the
\* signature byte of the first accepted one, whatever that byte is.
C27_AcceptedShareFirstSignature ==
    (probe.model = MODEL_ACURITE609 /\ probe.calls > 0 /\ probe.ok) =>
        Field(probe.w, 39, 32) = probe.first

\* What the code does instead: the latch holds for every first signature
\* byte but 0, the value the member has while nothing is latched.
C27_Observed ==
    (probe.model = MODEL_ACURITE609 /\ probe.calls > 0 /\ probe.ok) =>
        /\ probe.first # 0 => Field(probe.w, 39, 32) = probe.first
        /\ probe.after.signature = IF probe.before.signature # 0
                                   THEN probe.before.signature
                                   ELSE Field(probe.w, 39, 32)
        /\ probe.first = 0 /\ probe.calls = 2 => probe.before.signature = 0

\* C28: when the class of the previous pulse is not OFF, the 00609 parse_rf
\* returns 0 and leaves bitstream, bitstream_size, bitstream_open and
\* chunk_open unchanged, whatever the current pulse; only the last class is
\* updated, to the class of the current pulse.
C28_GatedOnPreviousOff ==
    [][ (ev'.called609 /\ m609.last_rfs_type # ACURITE609_SIGNAL_OFF) =>
          /\ ev'.r609 = ZeroWord
          /\ m609' = [m609 EXCEPT !.last_rfs_type =
                         Acurite609_get_rfs_type(ev'.rfs, ev'.duration)]
      ]_vars

\* Inside a chunk holding two bits, a CHUNK_END pulse has come after a low
\* pulse too long to be OFF, and the chunk and its bits are as they were.
C28_Witness ==
    /\ feed.script.kind = "violate" /\ feed.script.model = MODEL_ACURITE609
    /\ feed.n = ScriptLen(feed.script)
    /\ feed.script.j = 2
    /\ Acurite609_get_rfs_type(feed.script.bad[1].rfs,
                               feed.script.bad[1].duration)
         = ACURITE609_SIGNAL_INV
    /\ m609.last_rfs_type = ACURITE609_SIGNAL_CHUNK_END
    /\ m609.chunk_open /\ m609.bitstream_open /\ m609.bitstream_size = 2

\* C29: in both models bitstream_size < BIT_LENGTH after every parse_rf
\* call, and every non-zero return of parse_rf happens on a bit pulse
\* (BIT_0_ON or BIT_1_ON for the 00523, BIT_0 or BIT_1 for the 00609) that
\* shifts in the last bit of a buffer holding BIT_LENGTH - 1 bits and leaves
\* it empty; so the emit-if-full branches on CHUNK_END, BITSTREAM_START,
\* BITSTREAM_END and BIT_1_ON at size 48 never return a candidate.
C29_EmitOnlyOnFinalBit ==
    [][ /\ m523'.bitstream_size < ACURITE523_SIGNAL_BIT_LENGTH
        /\ m609'.bitstream_size < ACURITE609_SIGNAL_BIT_LENGTH
        /\ NonZero(ev'.r523) =>
             /\ Acurite523_get_rfs_type(ev'.rfs, ev'.duration)
                  \in {ACURITE523_SIGNAL_BIT_0_ON, ACURITE523_SIGNAL_BIT_1_ON}
             /\ m523.bitstream_size = ACURITE523_SIGNAL_BIT_LENGTH - 1
             /\ m523'.bitstream_size = 0
        /\ NonZero(ev'.r609) =>
             /\ Acurite609_get_rfs_type(ev'.rfs, ev'.duration)
                  \in {ACURITE609_SIGNAL_BIT_0, ACURITE609_SIGNAL_BIT_1}
             /\ m609.bitstream_size = ACURITE609_SIGNAL_BIT_LENGTH - 1
             /\ m609'.bitstream_size = 0 ]_vars

\* The second block of a 00609 stream has been returned on its last bit
\* pulse, after the BITSTREAM_START between the blocks returned nothing.
C29_Witness ==
    /\ feed.script.kind = "rt609" /\ Len(feed.script.ws) = 2
    /\ feed.n = 2 * Block609Len
    /\ NonZero(ev.r609) /\ ev.r609 = feed.script.ws[2]
    /\ m609.last_rfs_type \in {ACURITE609_SIGNAL_BIT_0, ACURITE609_SIGNAL_BIT_1}
    /\ m609.bitstream_size = 0

=============================================================================
